---- MODULE Spec2Model ----
(***************************************************************************)
(* A model of lib/client.js of solr-node: the Client's configuration, the  *)
(* public operations (search, terms, mlt, spell, suggest, ping, update,    *)
(* updateExtract, delete, deleteByIds, commit, softCommit), the request    *)
(* assembly (_makeHostUrl, _requestGet, _requestPost) and the dispatch     *)
(* (_callSolrServer) with its promise chain and the two calling            *)
(* conventions (completion function, returned promise).                    *)
(*                                                                         *)
(* JavaScript values are tagged records [t |-> type, v |-> payload].       *)
(* Strings of the model hold only characters that querystring.escape and   *)
(* JSON string quoting leave unchanged, except where QsEscape lists them.  *)
(***************************************************************************)
EXTENDS Naturals, Sequences, FiniteSets

VARIABLES
  clientOptions,  \* this.options, set by the constructor
  paths,          \* this.SEARCH_PATH ... this.SUGGEST_PATH
  env,            \* process.env (SOLR_TIMEOUT)
  calls           \* one record per call of a public operation

vars == <<clientOptions, paths, env, calls>>

(***************************************************************************)
(* Bounds of the model.                                                    *)
(***************************************************************************)
MaxCalls == 2     \* calls of public operations that may be pending together
MaxIds == 2       \* longest ids array handed to deleteByIds

CallIds == 1 .. MaxCalls

(***************************************************************************)
(* JavaScript values.                                                      *)
(***************************************************************************)
Undefined == [t |-> "undefined", v |-> ""]
Null == [t |-> "null", v |-> ""]
Str(s) == [t |-> "string", v |-> s]
Num(n) == [t |-> "number", v |-> n]
Bool(b) == [t |-> "boolean", v |-> b]
Arr(items) == [t |-> "array", v |-> items]
\* an object is the sequence of its own enumerable <<key, value>> pairs, in
\* insertion order
Obj(kvs) == [t |-> "object", v |-> kvs]
\* a function value; name tells two functions apart
Fn(name) == [t |-> "function", v |-> name]
\* an instance of Query (lib/query.js); v is what its toString() returns
QueryInst(s) == [t |-> "query", v |-> s]
\* an error object; v is <<name, message>>, the name that of its class
ErrOf(name, msg) == [t |-> "error", v |-> <<name, msg>>]
\* new Error(msg)
Err(msg) == ErrOf("Error", msg)
\* a fetch Response: status, body text, and whether json() throws at once
Response(status, body, throws) ==
  [t |-> "response", v |-> <<status, body, throws>>]

\* typeof x === "function" / _.isFunction(x)
IsFunction(x) == x.t = "function"
\* _.isString(x)
IsString(x) == x.t = "string"
\* _.isObject(x): functions and objects (arrays and class instances included)
IsObject(x) == x.t \in {"object", "array", "function", "query", "error", "response"}
\* Array.isArray(x)
IsArray(x) == x.t = "array"
\* ToBoolean(x), as used by ||, && and !
Truthy(x) ==
  CASE x.t \in {"undefined", "null"} -> FALSE
    [] x.t = "string" -> x.v # ""
    [] x.t = "number" -> x.v # 0
    [] x.t = "boolean" -> x.v
    [] OTHER -> TRUE
\* a || b
OrElse(a, b) == IF Truthy(a) THEN a ELSE b

\* obj.key for an object value (undefined when the key is absent)
RECURSIVE PropOf(_, _)
PropOf(kvs, key) ==
  IF kvs = <<>> THEN Undefined
  ELSE IF kvs[Len(kvs)][1] = key THEN kvs[Len(kvs)][2]
  ELSE PropOf(SubSeq(kvs, 1, Len(kvs) - 1), key)
GetProp(x, key) == IF x.t = "object" THEN PropOf(x.v, key) ELSE Undefined

\* obj.key = value on an object: replaces the key in place or appends it
RECURSIVE PutProp(_, _, _)
PutProp(kvs, key, value) ==
  IF kvs = <<>> THEN << <<key, value>> >>
  ELSE IF kvs[1][1] = key THEN << <<key, value>> >> \o Tail(kvs)
  ELSE <<kvs[1]>> \o PutProp(Tail(kvs), key, value)

\* decimal digits of a natural number
RECURSIVE Digits(_)
Digits(n) ==
  LET d == n % 10
      c == CASE d = 0 -> "0" [] d = 1 -> "1" [] d = 2 -> "2" [] d = 3 -> "3"
             [] d = 4 -> "4" [] d = 5 -> "5" [] d = 6 -> "6" [] d = 7 -> "7"
             [] d = 8 -> "8" [] OTHER -> "9"
  IN IF n < 10 THEN c ELSE Digits(n \div 10) \o c

\* String(x) / x + "" for the values that are concatenated into URLs
ToStr(x) ==
  CASE x.t = "string" -> x.v
    [] x.t = "number" -> Digits(x.v)
    [] x.t = "boolean" -> IF x.v THEN "true" ELSE "false"
    [] x.t = "undefined" -> "undefined"
    [] x.t = "null" -> "null"
    [] x.t = "query" -> x.v
    [] x.t = "error" -> IF x.v[2] = "" THEN x.v[1]
                        ELSE x.v[1] \o ": " \o x.v[2]
    [] OTHER -> "[object Object]"

(***************************************************************************)
(* Conversions of the Node run time the client relies on.                  *)
(***************************************************************************)
\* querystring.escape on the strings of the model: everything but the
\* characters listed here is left as it is
QsEscape(s) ==
  CASE s = "solr node" -> "solr%20node"
    [] s = "id:1" -> "id%3A1"
    [] OTHER -> s

\* stringifyPrimitive of querystring: strings, numbers and booleans are
\* written out, every other value becomes the empty string
QsPrimitive(x) ==
  IF x.t \in {"string", "number", "boolean"} THEN QsEscape(ToStr(x)) ELSE ""

\* the fields of QueryString.stringify(obj, sep, eq) for the pairs kvs
RECURSIVE QsFields(_, _, _)
QsFields(kvs, sep, eq) ==
  IF kvs = <<>> THEN ""
  ELSE LET before == QsFields(SubSeq(kvs, 1, Len(kvs) - 1), sep, eq)
           last == kvs[Len(kvs)]
       IN (IF before # "" THEN before \o sep ELSE "")
            \o QsEscape(last[1]) \o eq \o QsPrimitive(last[2])

\* the <<index, item>> pairs Object.keys gives for an array
IndexPairs(items) == [i \in 1 .. Len(items) |-> <<Digits(i - 1), items[i]>>]

\* QueryString.stringify(x, sep, eq): "" unless x is a non-null object
QsStringify(x, sep, eq) ==
  CASE x.t = "object" -> QsFields(x.v, sep, eq)
    [] x.t = "array" -> QsFields(IndexPairs(x.v), sep, eq)
    [] OTHER -> ""

\* JSON.stringify leaves these out of objects and writes null for them in
\* arrays
JsonAbsent(x) == x.t \in {"undefined", "function"}

RECURSIVE JsonText(_)
RECURSIVE JsonItems(_)
RECURSIVE JsonProps(_)
\* the text of a value that is not JsonAbsent
JsonText(x) ==
  CASE x.t = "string" -> "\"" \o x.v \o "\""
    [] x.t = "number" -> Digits(x.v)
    [] x.t = "boolean" -> IF x.v THEN "true" ELSE "false"
    [] x.t = "null" -> "null"
    [] x.t = "array" -> "[" \o JsonItems(x.v) \o "]"
    [] x.t = "object" -> "{" \o JsonProps(x.v) \o "}"
    [] OTHER -> "{}"
JsonItems(items) ==
  IF items = <<>> THEN ""
  ELSE LET before == JsonItems(SubSeq(items, 1, Len(items) - 1))
           last == items[Len(items)]
       IN (IF Len(items) > 1 THEN before \o "," ELSE "")
            \o (IF JsonAbsent(last) THEN "null" ELSE JsonText(last))
JsonProps(kvs) ==
  IF kvs = <<>> THEN ""
  ELSE LET before == JsonProps(SubSeq(kvs, 1, Len(kvs) - 1))
           last == kvs[Len(kvs)]
       IN IF JsonAbsent(last[2]) THEN before
          ELSE (IF before # "" THEN before \o "," ELSE "")
                 \o "\"" \o last[1] \o "\":" \o JsonText(last[2])

\* JSON.stringify(x): a string, or undefined for undefined and functions
JsonStringify(x) == IF JsonAbsent(x) THEN Undefined ELSE Str(JsonText(x))

(***************************************************************************)
(* The constructor.                                                        *)
(***************************************************************************)
\* options objects handed to new Client(options)
ConstructorInputs ==
  { Obj(<<>>),
    Obj(<< <<"host", Str("solr.example")>>, <<"port", Num(8080)>>,
           <<"core", Str("books")>>, <<"rootPath", Str("search")>>,
           <<"protocol", Str("https")>>, <<"requestHandler", Str("query")>>,
           <<"user", Str("u")>>, <<"password", Str("p")>> >>),
    Obj(<< <<"core", Str("books")>>, <<"user", Str("u")>> >>) }

\* this.options after Client(options)
ClientOptions(options) ==
  LET both == Truthy(GetProp(options, "user"))
                /\ Truthy(GetProp(options, "password"))
      defaults ==
        << <<"host", OrElse(GetProp(options, "host"), Str("127.0.0.1"))>>,
           <<"port", OrElse(GetProp(options, "port"), Str("8983"))>>,
           <<"core", OrElse(GetProp(options, "core"), Str(""))>>,
           <<"rootPath", OrElse(GetProp(options, "rootPath"), Str("solr"))>>,
           <<"protocol", OrElse(GetProp(options, "protocol"), Str("http"))>>,
           <<"requestHandler",
             OrElse(GetProp(options, "requestHandler"), Str("select"))>> >>
  IN Obj(IF both
         THEN defaults \o << <<"user", GetProp(options, "user")>>,
                             <<"password", GetProp(options, "password")>> >>
         ELSE defaults)

\* the path constants set by Client(options)
PathConstants(opts) ==
  [ SEARCH_PATH |-> GetProp(opts, "requestHandler"),
    TERMS_PATH |-> Str("terms"),
    SPELL_PATH |-> Str("spell"),
    MLT_PATH |-> Str("mlt"),
    UPDATE_PATH |-> Str("update"),
    UPDATE_EXTRACT_PATH |-> Str("update/extract"),
    PING_PATH |-> Str("admin/ping"),
    SUGGEST_PATH |-> Str("suggest") ]

(***************************************************************************)
(* One call of a public operation.                                         *)
(***************************************************************************)
\* a promise: pending, fulfilled with val, rejected with val; "none" where
\* the call made no such promise
NoPromise == [st |-> "none", val |-> Undefined]
Pending == [st |-> "pending", val |-> Undefined]
Fulfilled(x) == [st |-> "fulfilled", val |-> x]
Rejected(x) == [st |-> "rejected", val |-> x]
Settled(p) == p.st \in {"fulfilled", "rejected"}

\* a call that has not been made
IdleCall ==
  [ pc |-> "idle",            \* "idle", "threw" or "dispatched"
    op |-> "",                \* the public operation
    args |-> <<>>,            \* its arguments, as the caller passed them
    callerArgs |-> <<>>,      \* the caller's argument objects after the call
    thrown |-> Undefined,     \* the exception the operation threw
    returned |-> "none",      \* "undefined", "promise" or "throw"
    finalCallback |-> Undefined,
    fetchCalls |-> <<>>,      \* the invocations of the HTTP transport
    fetchP |-> NoPromise,     \* the promise fetch returned
    result |-> NoPromise,     \* fetch(...).then(res => res.json())
    p2 |-> NoPromise,         \* result.then(json => finalCallback(null, json))
    p3 |-> NoPromise,         \* p2.catch(err => finalCallback(err.message))
    cbCalls |-> <<>> ]        \* the invocations <<error, result>> of finalCallback

\* an argument that is the Client's own options object (the caller passed
\* client.options): the parameter then names this.options itself
ThisOptions == [t |-> "ref", v |-> "this.options"]
Deref(x) == IF x = ThisOptions THEN clientOptions ELSE x

\* argument i of a call (undefined when fewer were passed)
Param(args, i) == IF i <= Len(args) THEN Deref(args[i]) ELSE Undefined

\* what the synchronous part of an operation did: it threw err
Throws(err) ==
  [ pc |-> "threw", thrown |-> err, returned |-> "throw",
    finalCallback |-> Undefined, fetchCalls |-> <<>>,
    fetchP |-> NoPromise, result |-> NoPromise,
    p2 |-> NoPromise, p3 |-> NoPromise ]

(***************************************************************************)
(* Request assembly and dispatch.                                          *)
(***************************************************************************)
\* Client.prototype._makeHostUrl
makeHostUrl(protocol, host, port, user, password) ==
  LET auth == IF Truthy(user) /\ Truthy(password)
              THEN ToStr(user) \o ":" \o ToStr(password) \o "@"
              ELSE ""
  IN IF Truthy(port)
     THEN ToStr(protocol) \o "://" \o auth \o ToStr(host) \o ":" \o ToStr(port)
     ELSE ToStr(protocol) \o "://" \o auth \o ToStr(host)

\* an element of Array.prototype.join: undefined and null give ""
JoinItem(x) == IF x.t \in {"undefined", "null"} THEN "" ELSE ToStr(x)

\* requestPrefixUrl of _requestGet and _requestPost
requestPrefixUrl(path) ==
  makeHostUrl(GetProp(clientOptions, "protocol"),
              GetProp(clientOptions, "host"), GetProp(clientOptions, "port"),
              GetProp(clientOptions, "user"),
              GetProp(clientOptions, "password"))
    \o "/" \o JoinItem(GetProp(clientOptions, "rootPath")) \o "/"
    \o JoinItem(GetProp(clientOptions, "core")) \o "/" \o JoinItem(path)

\* _callSolrServer with a second fetch for the completion function's path
callSolrServer_fetchPerPath(requestFullPath, fetchOptions, finalCallback) ==
  LET timeout == OrElse(GetProp(fetchOptions, "timeout"),
                        OrElse(env.SOLR_TIMEOUT, Str("20000")))
      request == [ url |-> requestFullPath, options |-> fetchOptions,
                   timeout |-> timeout ]
      withCallback == IsFunction(finalCallback)
  IN [ pc |-> "dispatched",
       thrown |-> Undefined,
       returned |-> IF withCallback THEN "undefined" ELSE "promise",
       finalCallback |-> finalCallback,
       fetchCalls |-> IF withCallback THEN <<request, request>>
                      ELSE <<request>>,
       fetchP |-> Pending,
       result |-> Pending,
       p2 |-> IF withCallback THEN Pending ELSE NoPromise,
       p3 |-> IF withCallback THEN Pending ELSE NoPromise ]

\* Client.prototype._callSolrServer: the one invocation of the transport,
\* fetch(requestFullPath, fetchOptions, timeout), and the promises chained
\* on it
callSolrServer(requestFullPath, fetchOptions, finalCallback) ==
  LET defaultTimeout == OrElse(env.SOLR_TIMEOUT, Str("20000"))
      timeout ==
        OrElse(IF fetchOptions.t \in {"null", "undefined"} THEN Undefined
               ELSE GetProp(fetchOptions, "timeout"),
               defaultTimeout)
      withCallback == IsFunction(finalCallback)
  IN [ pc |-> "dispatched",
       thrown |-> Undefined,
       returned |-> IF withCallback THEN "undefined" ELSE "promise",
       finalCallback |-> finalCallback,
       fetchCalls |-> << [ url |-> requestFullPath,
                           options |-> fetchOptions,
                           timeout |-> timeout ] >>,
       fetchP |-> Pending,
       result |-> Pending,
       p2 |-> IF withCallback THEN Pending ELSE NoPromise,
       p3 |-> IF withCallback THEN Pending ELSE NoPromise ]

\* Client.prototype._requestGet
requestGet(path, query, finalCallback) ==
  LET params == IF query.t = "query" THEN ToStr(query)
                ELSE IF IsString(query) THEN query.v
                ELSE "q=*:*"
      requestFullPath == requestPrefixUrl(path) \o "?" \o params
      options ==
        Obj(<< <<"method", Str("GET")>>,
               <<"headers",
                 Obj(<< <<"accept", Str("application/json; charset=utf-8")>> >>)>> >>)
  IN callSolrServer(requestFullPath, options, finalCallback)

\* Client.prototype._requestPost
requestPost(path, data, urlOptions, finalCallback) ==
  LET params == IF IsString(urlOptions) THEN urlOptions.v
                ELSE IF IsObject(urlOptions) THEN QsStringify(urlOptions, "&", "=")
                ELSE ""
      requestFullPath == requestPrefixUrl(path) \o "?" \o params
      options ==
        Obj(<< <<"method", Str("POST")>>,
               <<"body", JsonStringify(data)>>,
               <<"headers",
                 Obj(<< <<"accept", Str("application/json; charset=utf-8")>>,
                        <<"content-type",
                          Str("application/json; charset=utf-8")>> >>)>> >>)
  IN callSolrServer(requestFullPath, options, finalCallback)

\* call c, so far not made, is made: operation op with args, whose
\* synchronous part did eff and left the caller's argument objects as
\* callerArgs
Entered(c, op, args, callerArgs, eff) ==
  calls' = [calls EXCEPT ![c] =
    [ pc |-> eff.pc, op |-> op, args |-> args, callerArgs |-> callerArgs,
      thrown |-> eff.thrown,
      returned |-> eff.returned, finalCallback |-> eff.finalCallback,
      fetchCalls |-> eff.fetchCalls, fetchP |-> eff.fetchP,
      result |-> eff.result, p2 |-> eff.p2, p3 |-> eff.p3,
      cbCalls |-> <<>> ]]

\* an operation that writes into no object but its own
Enter(c, op, args, eff) ==
  /\ Entered(c, op, args, args, eff)
  /\ UNCHANGED <<clientOptions, paths, env>>

\* the default URL options of update, updateExtract, delete and deleteByIds
DefaultOptions == Obj(<< <<"commit", Bool(TRUE)>> >>)

(***************************************************************************)
(* The public operations: c is the call, args the arguments as passed.     *)
(***************************************************************************)
\* Client.prototype.search
search(c, args) ==
  /\ calls[c].pc = "idle"
  /\ Enter(c, "search", args,
           requestGet(paths.SEARCH_PATH, Param(args, 1), Param(args, 2)))

\* Client.prototype.terms
terms(c, args) ==
  /\ calls[c].pc = "idle"
  /\ Enter(c, "terms", args,
           requestGet(paths.TERMS_PATH, Param(args, 1), Param(args, 2)))

\* Client.prototype.mlt
mlt(c, args) ==
  /\ calls[c].pc = "idle"
  /\ Enter(c, "mlt", args,
           requestGet(paths.MLT_PATH, Param(args, 1), Param(args, 2)))

\* Client.prototype.spell
spell(c, args) ==
  /\ calls[c].pc = "idle"
  /\ Enter(c, "spell", args,
           requestGet(paths.SPELL_PATH, Param(args, 1), Param(args, 2)))

\* Client.prototype.suggest
suggest(c, args) ==
  /\ calls[c].pc = "idle"
  /\ Enter(c, "suggest", args,
           requestGet(paths.SUGGEST_PATH, Param(args, 1), Param(args, 2)))

\* Client.prototype.ping
ping(c, args) ==
  /\ calls[c].pc = "idle"
  /\ Enter(c, "ping", args,
           requestGet(paths.PING_PATH, Str(""), Param(args, 1)))

\* Client.prototype.commit
commit(c, args) ==
  /\ calls[c].pc = "idle"
  /\ Enter(c, "commit", args,
           requestPost(paths.UPDATE_PATH, Obj(<<>>),
                    Obj(<< <<"commit", Bool(TRUE)>> >>), Param(args, 1)))

\* Client.prototype.softCommit
softCommit(c, args) ==
  /\ calls[c].pc = "idle"
  /\ Enter(c, "softCommit", args,
           requestPost(paths.UPDATE_PATH, Obj(<<>>),
                    Obj(<< <<"softCommit", Bool(TRUE)>> >>), Param(args, 1)))

\* Client.prototype.update
update(c, args) ==
  LET data == Param(args, 1)
      shift == Len(args) < 3
                 /\ (~Truthy(Param(args, 2)) \/ IsFunction(Param(args, 2)))
      finalCallback == IF shift THEN Param(args, 2) ELSE Param(args, 3)
      options == IF shift THEN DefaultOptions ELSE Param(args, 2)
      bodyData ==
        IF IsArray(data) THEN data
        ELSE Obj(<< <<"add", Obj(<< <<"doc", data>>,
                                    <<"overwrite", Bool(TRUE)>> >>)>> >>)
  IN /\ calls[c].pc = "idle"
     /\ Enter(c, "update", args,
              requestPost(paths.UPDATE_PATH, bodyData, options, finalCallback))

\* Client.prototype.updateExtract
updateExtract(c, args) ==
  LET shift == Len(args) < 2 /\ IsFunction(Param(args, 1))
      finalCallback == IF shift THEN Param(args, 1) ELSE Param(args, 2)
      options == IF shift THEN DefaultOptions ELSE Param(args, 1)
      \* options.wt = "json": a TypeError on undefined and null, nothing on
      \* a primitive (the module is not in strict mode), a write into the
      \* object itself otherwise
      throws == options.t \in {"undefined", "null"}
      withWt == IF options.t = "object"
                THEN Obj(PutProp(options.v, "wt", Str("json")))
                ELSE options
      \* the object written is the caller's unless it is the default made
      \* here; it is this.options when the caller passed client.options
      callers == ~shift /\ ~throws
      aliased == callers /\ args[1] = ThisOptions
      bodyData ==
        Obj(<< <<"add", Obj(<< <<"doc", Null>>,
                               <<"overwrite", Bool(TRUE)>> >>)>> >>)
  IN /\ calls[c].pc = "idle"
     /\ Entered(c, "updateExtract", args,
                IF callers /\ ~aliased THEN [args EXCEPT ![1] = withWt]
                ELSE args,
                IF throws
                THEN Throws(ErrOf("TypeError",
                                  "Cannot set properties of " \o ToStr(options)
                                    \o " (setting 'wt')"))
                ELSE requestPost(paths.UPDATE_EXTRACT_PATH, bodyData, withWt,
                                 finalCallback))
     /\ clientOptions' = IF aliased THEN withWt ELSE clientOptions
     /\ UNCHANGED <<paths, env>>

\* Client.prototype.delete
delete(c, args) ==
  LET query == Param(args, 1)
      shift == Len(args) < 3 /\ IsFunction(Param(args, 2))
      finalCallback == IF shift THEN Param(args, 2) ELSE Param(args, 3)
      options == IF shift THEN DefaultOptions ELSE Param(args, 2)
      bodyQuery == IF IsString(query) THEN query.v
                   ELSE IF IsObject(query) THEN QsStringify(query, " AND ", ":")
                   ELSE ""
      bodyData == Obj(<< <<"delete", Obj(<< <<"query", Str(bodyQuery)>> >>)>> >>)
  IN /\ calls[c].pc = "idle"
     /\ Enter(c, "delete", args,
              requestPost(paths.UPDATE_PATH, bodyData, options, finalCallback))

\* deleteByIds without the Array.isArray test: _.map takes whatever it gets
deleteByIds_noArrayTest(c, args) ==
  LET ids == Param(args, 1)
      shift == Len(args) < 3 /\ IsFunction(Param(args, 2))
      finalCallback == IF shift THEN Param(args, 2) ELSE Param(args, 3)
      options == IF shift THEN DefaultOptions ELSE Param(args, 2)
      items == IF IsArray(ids) THEN ids.v ELSE <<ids>>
      toDelete == [i \in 1 .. Len(items) |-> Obj(<< <<"id", items[i]>> >>)]
      bodyData == Obj(<< <<"delete", Arr(toDelete)>> >>)
  IN /\ calls[c].pc = "idle"
     /\ Enter(c, "deleteByIds", args,
              requestPost(paths.UPDATE_PATH, bodyData, options,
                          finalCallback))

\* Client.prototype.deleteByIds
deleteByIds(c, args) ==
  LET ids == Param(args, 1)
      shift == Len(args) < 3 /\ IsFunction(Param(args, 2))
      finalCallback == IF shift THEN Param(args, 2) ELSE Param(args, 3)
      options == IF shift THEN DefaultOptions ELSE Param(args, 2)
      toDelete == [i \in 1 .. Len(ids.v) |-> Obj(<< <<"id", ids.v[i]>> >>)]
      bodyData == Obj(<< <<"delete", Arr(toDelete)>> >>)
  IN /\ calls[c].pc = "idle"
     /\ Enter(c, "deleteByIds", args,
              IF ~IsArray(ids) THEN Throws(Err("ids must be an array"))
              ELSE requestPost(paths.UPDATE_PATH, bodyData, options,
                               finalCallback))

(***************************************************************************)
(* The HTTP transport (lib/modules/fetchWithTimeout) and the Response it   *)
(* resolves with.                                                          *)
(***************************************************************************)
OkBody == "{\"responseHeader\":{\"status\":0}}"
ErrorBody == "{\"error\":{\"code\":400}}"
HtmlBody == "<html>502</html>"

\* Response.json() on the bodies of the model: the parsed value, or the
\* SyntaxError of a body that is not JSON
JsonParse(body) ==
  CASE body = OkBody ->
         [ok |-> TRUE,
          value |-> Obj(<< <<"responseHeader", Obj(<< <<"status", Num(0)>> >>)>> >>)]
    [] body = ErrorBody ->
         [ok |-> TRUE,
          value |-> Obj(<< <<"error", Obj(<< <<"code", Num(400)>> >>)>> >>)]
    [] OTHER ->
         [ok |-> FALSE,
          value |-> ErrOf("SyntaxError",
                          "Unexpected token < in JSON at position 0")]

\* what fetch may resolve with: every status with every body, json()
\* answering with a promise, and one Response whose json() throws at once
Responses ==
  { Response(st, b, FALSE) : st \in {200, 400, 500},
                             b \in {OkBody, ErrorBody, HtmlBody} }
    \cup { Response(200, HtmlBody, TRUE) }

\* what fetch may reject with: a connection failure, the expiry of the timeout
TransportErrors == { Err("connect ECONNREFUSED"), Err("Request timed out") }

\* the transport resolves the promise of call c with res
TransportRespond(c, res) ==
  /\ calls[c].fetchP.st = "pending"
  /\ calls' = [calls EXCEPT ![c].fetchP = Fulfilled(res)]
  /\ UNCHANGED <<clientOptions, paths, env>>

\* the transport rejects the promise of call c with err
TransportReject(c, err) ==
  /\ calls[c].fetchP.st = "pending"
  /\ calls' = [calls EXCEPT ![c].fetchP = Rejected(err)]
  /\ UNCHANGED <<clientOptions, paths, env>>

(***************************************************************************)
(* The promise chain of _callSolrServer.                                   *)
(***************************************************************************)
\* what `result` settles to once fetch has settled to p: the handler
\* function (res) { try { return res.json() } catch ... } on a Response, the
\* rejection itself otherwise.  A json() that throws at once is caught and
\* rethrown as new Error(error), whose message is String(error): the name
\* of the caught error's class, then its message.
ResultOf(p) ==
  IF p.st = "rejected" THEN Rejected(p.val)
  ELSE LET body == p.val.v[2]
           throws == p.val.v[3]
           parsed == JsonParse(body)
       IN IF throws THEN Rejected(Err(ToStr(parsed.value)))
          ELSE IF parsed.ok THEN Fulfilled(parsed.value)
          ELSE Rejected(parsed.value)

\* the first .then of _callSolrServer runs for call c
onResponse(c) ==
  /\ Settled(calls[c].fetchP)
  /\ calls[c].result.st = "pending"
  /\ calls' = [calls EXCEPT ![c].result = ResultOf(calls[c].fetchP)]
  /\ UNCHANGED <<clientOptions, paths, env>>

\* the error a throwing completion function throws
CallbackError == Err("thrown by the completion function")

\* err.message
MessageOf(err) == IF err.t = "error" THEN Str(err.v[2]) ELSE Undefined

\* result.then(function (json) { finalCallback(null, json) }) runs for call
\* c; cbThrows tells whether this invocation of finalCallback throws
onJson(c, cbThrows) ==
  /\ Settled(calls[c].result)
  /\ calls[c].p2.st = "pending"
  /\ IF calls[c].result.st = "fulfilled"
     THEN calls' = [calls EXCEPT
            ![c].cbCalls = Append(@, <<Null, calls[c].result.val>>),
            ![c].p2 = IF cbThrows THEN Rejected(CallbackError)
                      ELSE Fulfilled(Undefined)]
     ELSE /\ ~cbThrows
          /\ calls' = [calls EXCEPT ![c].p2 = Rejected(calls[c].result.val)]
  /\ UNCHANGED <<clientOptions, paths, env>>

\* .catch(function (err) { finalCallback(err.message) }) runs for call c
onError(c, cbThrows) ==
  /\ Settled(calls[c].p2)
  /\ calls[c].p3.st = "pending"
  /\ IF calls[c].p2.st = "rejected"
     THEN calls' = [calls EXCEPT
            ![c].cbCalls = Append(@, <<MessageOf(calls[c].p2.val), Undefined>>),
            ![c].p3 = IF cbThrows THEN Rejected(CallbackError)
                      ELSE Fulfilled(Undefined)]
     ELSE /\ ~cbThrows
          /\ calls' = [calls EXCEPT ![c].p3 = Fulfilled(calls[c].p2.val)]
  /\ UNCHANGED <<clientOptions, paths, env>>

(***************************************************************************)
(* The process environment.                                                *)
(***************************************************************************)
EnvTimeouts == {Undefined, Str("5000")}

\* process.env.SOLR_TIMEOUT is set to v, or deleted
SetEnv(v) ==
  /\ v # env.SOLR_TIMEOUT
  /\ env' = [env EXCEPT !.SOLR_TIMEOUT = v]
  /\ UNCHANGED <<clientOptions, paths, calls>>

(***************************************************************************)
(* The arguments callers pass.                                             *)
(***************************************************************************)
Cb == Fn("finalCallback")

Queries == {Undefined, Str("q=solr"), QueryInst("q=*%3A*&rows=1")}
GetArgs ==
  {<<>>} \cup {<<q>> : q \in Queries \ {Undefined}}
         \cup {<<q, Cb>> : q \in Queries}
CbArgs == {<<>>, <<Cb>>}

OptionValues ==
  { Obj(<< <<"softCommit", Bool(TRUE)>> >>),
    Obj(<< <<"commit", Bool(FALSE)>>, <<"timeout", Num(1000)>> >>),
    Str("commitWithin=500") }
\* the shapes of a call (payload, options, callback)
PostArgs(d) ==
  {<<d>>, <<d, Cb>>, <<d, Undefined>>, <<d, Undefined, Cb>>}
    \cup {<<d, o>> : o \in OptionValues}
    \cup {<<d, o, Cb>> : o \in OptionValues}

Doc(id) == Obj(<< <<"id", Str(id)>> >>)
UpdatePayloads == {Doc("1"), Arr(<<Doc("1"), Doc("2")>>)}
DeletePayloads ==
  { Str("id:1"),
    Obj(<< <<"title", Str("solr node")>>, <<"type", Str("book")>> >>),
    Undefined }
Ids == {Str("a"), Str("b")}
RECURSIVE SeqsUpTo(_, _)
SeqsUpTo(S, n) ==
  IF n = 0 THEN {<<>>}
  ELSE LET shorter == SeqsUpTo(S, n - 1)
       IN shorter \cup {Append(q, x) : q \in shorter, x \in S}
IdsPayloads == {Str("a")} \cup {Arr(q) : q \in SeqsUpTo(Ids, MaxIds)}
ExtractArgs ==
  {<<>>, <<Cb>>, <<Undefined, Cb>>, <<ThisOptions>>, <<ThisOptions, Cb>>}
    \cup {<<o>> : o \in OptionValues} \cup {<<o, Cb>> : o \in OptionValues}

(***************************************************************************)
(* Spec: one call of a public operation, with every shape of arguments,    *)
(* every answer of the transport and every behaviour of the completion     *)
(* function, while the environment changes.                                *)
(***************************************************************************)
Init ==
  /\ \E o \in ConstructorInputs :
       /\ clientOptions = ClientOptions(o)
       /\ paths = PathConstants(ClientOptions(o))
  /\ env \in [SOLR_TIMEOUT : EnvTimeouts]
  /\ calls = [c \in CallIds |-> IdleCall]

FirstCall == CHOOSE c \in CallIds : \A d \in CallIds : c <= d

Next ==
  \/ \E v \in EnvTimeouts : SetEnv(v)
  \/ \E args \in GetArgs : search(FirstCall, args)
  \/ \E args \in GetArgs : terms(FirstCall, args)
  \/ \E args \in GetArgs : mlt(FirstCall, args)
  \/ \E args \in GetArgs : spell(FirstCall, args)
  \/ \E args \in GetArgs : suggest(FirstCall, args)
  \/ \E args \in CbArgs : ping(FirstCall, args)
  \/ \E args \in CbArgs : commit(FirstCall, args)
  \/ \E args \in CbArgs : softCommit(FirstCall, args)
  \/ \E d \in UpdatePayloads : \E args \in PostArgs(d) : update(FirstCall, args)
  \/ \E args \in ExtractArgs : updateExtract(FirstCall, args)
  \/ \E d \in DeletePayloads : \E args \in PostArgs(d) : delete(FirstCall, args)
  \/ \E d \in IdsPayloads : \E args \in PostArgs(d) : deleteByIds(FirstCall, args)
  \/ \E res \in Responses : TransportRespond(FirstCall, res)
  \/ \E err \in TransportErrors : TransportReject(FirstCall, err)
  \/ onResponse(FirstCall)
  \/ \E cbThrows \in BOOLEAN : onJson(FirstCall, cbThrows)
  \/ \E cbThrows \in BOOLEAN : onError(FirstCall, cbThrows)

Spec == Init /\ [][Next]_vars

(***************************************************************************)
(* SpecConc: up to MaxCalls calls pending together on one Client, their    *)
(* steps interleaved in every order.  Each operation is called in one      *)
(* shape (updateExtract and deleteByIds in one that throws and one that     *)
(* is dispatched), and the transport answers with one Response or one      *)
(* error.                                                                  *)
(***************************************************************************)
\* call c is the next one to be made
NextToCall(c) == \A d \in CallIds : d < c => calls[d].pc # "idle"

ConcQuery == Str("q=solr")
ConcResponse == Response(200, OkBody, FALSE)
ConcError == Err("Request timed out")
ConcIds == Arr(<<Str("a"), Str("b")>>)

ConcConstructorInput ==
  Obj(<< <<"host", Str("solr.example")>>, <<"port", Num(8080)>>,
         <<"core", Str("books")>>, <<"rootPath", Str("search")>>,
         <<"protocol", Str("https")>>, <<"requestHandler", Str("query")>>,
         <<"user", Str("u")>>, <<"password", Str("p")>> >>)

InitConc ==
  /\ clientOptions = ClientOptions(ConcConstructorInput)
  /\ paths = PathConstants(ClientOptions(ConcConstructorInput))
  /\ env = [SOLR_TIMEOUT |-> Undefined]
  /\ calls = [c \in CallIds |-> IdleCall]

NextConc ==
  \E c \in CallIds :
    \/ NextToCall(c) /\ search(c, <<ConcQuery, Cb>>)
    \/ NextToCall(c) /\ terms(c, <<ConcQuery>>)
    \/ NextToCall(c) /\ mlt(c, <<ConcQuery, Cb>>)
    \/ NextToCall(c) /\ spell(c, <<ConcQuery>>)
    \/ NextToCall(c) /\ suggest(c, <<ConcQuery, Cb>>)
    \/ NextToCall(c) /\ ping(c, <<>>)
    \/ NextToCall(c) /\ commit(c, <<Cb>>)
    \/ NextToCall(c) /\ softCommit(c, <<>>)
    \/ NextToCall(c) /\ update(c, <<Doc("1"), Cb>>)
    \/ NextToCall(c) /\ updateExtract(c, <<>>)
    \/ NextToCall(c) /\ updateExtract(c, <<ThisOptions>>)
    \/ NextToCall(c) /\ delete(c, <<Str("id:1")>>)
    \/ NextToCall(c) /\ deleteByIds(c, <<Str("a")>>)
    \/ NextToCall(c) /\ deleteByIds(c, <<ConcIds, Cb>>)
    \/ TransportRespond(c, ConcResponse)
    \/ TransportReject(c, ConcError)
    \/ onResponse(c)
    \/ onJson(c, FALSE)
    \/ onError(c, FALSE)

SpecConc == InitConc /\ [][NextConc]_vars

(***************************************************************************)
(* What the claims speak of.                                               *)
(***************************************************************************)
\* the caller of call c passed a completion function
SuppliedCallback(c) ==
  \E i \in 1 .. Len(calls[c].args) : IsFunction(calls[c].args[i])

\* call c reached _callSolrServer
Dispatched(c) == calls[c].pc = "dispatched"

\* nothing of call c is left to run
Complete(c) ==
  \/ calls[c].pc = "threw"
  \/ /\ Dispatched(c)
     /\ Settled(calls[c].result)
     /\ calls[c].p3.st = "none" \/ Settled(calls[c].p3)

\* the completion function of call c was invoked with error e first
InvokedWithError(c) ==
  \E i \in 1 .. Len(calls[c].cbCalls) : calls[c].cbCalls[i][1] # Null

\* the completion function of call c was invoked with (null, r)
InvokedWithResult(c, r) ==
  \E i \in 1 .. Len(calls[c].cbCalls) : calls[c].cbCalls[i] = <<Null, r>>

\* C1 (as claimed): a completion function handed to a call that reached the
\* transport is never invoked twice, and has been invoked once when the call
\* is complete, whatever the transport answered and whether or not the
\* completion function throws.
C1_CallbackExactlyOnce ==
  \A c \in CallIds :
    (Dispatched(c) /\ SuppliedCallback(c)) =>
      /\ Len(calls[c].cbCalls) <= 1
      /\ Complete(c) => Len(calls[c].cbCalls) = 1

\* C2: a call that reached dispatch has invoked the transport exactly once,
\* with or without a completion function, at every point of its life; a call
\* that did not reach dispatch has not invoked it.
C2_OneTransportCall ==
  \A c \in CallIds :
    /\ Dispatched(c) => Len(calls[c].fetchCalls) = 1
    /\ ~Dispatched(c) => Len(calls[c].fetchCalls) = 0

\* C2 witness: a call with a completion function has run to its end after a
\* transport failure; the completion function was invoked and the transport
\* was invoked once.
C2_Witness ==
  \E c \in CallIds :
    /\ Complete(c) /\ Dispatched(c) /\ SuppliedCallback(c)
    /\ calls[c].fetchP.st = "rejected"
    /\ Len(calls[c].cbCalls) = 1
    /\ Len(calls[c].fetchCalls) = 1

\* call c failed: its operation threw, or its request ended in an error
Failed(c) == calls[c].pc = "threw" \/ calls[c].result.st = "rejected"

\* C3 (as claimed): a failure of a complete call reached the error-first
\* parameter of the completion function when one was supplied, the rejection
\* of the returned promise when none was, never both, and nothing was thrown
\* to the caller or left as an unhandled rejection.
C3_NoErrorSwallowed ==
  \A c \in CallIds :
    (Complete(c) /\ Failed(c)) =>
      /\ SuppliedCallback(c) =>
           InvokedWithError(c) /\ calls[c].returned = "undefined"
      /\ ~SuppliedCallback(c) =>
           /\ calls[c].returned = "promise"
           /\ calls[c].result.st = "rejected"
           /\ ~InvokedWithError(c)
      /\ calls[c].thrown = Undefined
      /\ calls[c].p3.st # "rejected"

\* the text {"id":"a"},{"id":"b"},... for the ids, first to last
RECURSIVE IdEntries(_)
IdEntries(ids) ==
  IF ids = <<>> THEN ""
  ELSE "{\"id\":\"" \o Head(ids).v \o "\"}"
         \o (IF Len(ids) > 1 THEN "," \o IdEntries(Tail(ids)) ELSE "")

\* C4: deleteByIds with ids that is no array throws "ids must be an array"
\* at once and never invokes the transport, whatever options and completion
\* function came with it; with an array it POSTs the body
\* {"delete":[{"id":...},...]}, one entry per id, in the order of ids.
C4_DeleteByIds ==
  \A c \in CallIds :
    calls[c].op = "deleteByIds" =>
      LET ids == calls[c].args[1]
      IN IF ~IsArray(ids)
         THEN /\ calls[c].pc = "threw"
              /\ calls[c].returned = "throw"
              /\ calls[c].thrown = Err("ids must be an array")
              /\ calls[c].fetchCalls = <<>>
              /\ calls[c].cbCalls = <<>>
         ELSE /\ Dispatched(c)
              /\ Len(calls[c].fetchCalls) = 1
              /\ GetProp(calls[c].fetchCalls[1].options, "method") = Str("POST")
              /\ GetProp(calls[c].fetchCalls[1].options, "body")
                   = Str("{\"delete\":[" \o IdEntries(ids.v) \o "]}")

\* C4 witness: deleteByIds was called with two different ids and a completion
\* function, and its request is with the transport.
C4_Witness ==
  \E c \in CallIds :
    /\ calls[c].op = "deleteByIds"
    /\ calls[c].args = <<Arr(<<Str("b"), Str("a")>>), Cb>>
    /\ Dispatched(c)
    /\ GetProp(calls[c].fetchCalls[1].options, "body")
         = Str("{\"delete\":[{\"id\":\"b\"},{\"id\":\"a\"}]}")

\* C5 (as claimed): update, delete and deleteByIds called with fewer than
\* three arguments, the second a function or absent, use that function (if
\* any) as the completion function and send the default options, so the
\* request URL ends in ?commit=true.
C5_DefaultOptions ==
  \A c \in CallIds :
    ( /\ calls[c].op \in {"update", "delete", "deleteByIds"}
      /\ Dispatched(c)
      /\ Len(calls[c].args) < 3
      /\ Len(calls[c].args) < 2 \/ IsFunction(calls[c].args[2]) ) =>
        /\ calls[c].finalCallback = Param(calls[c].args, 2)
        /\ calls[c].fetchCalls[1].url
             = requestPrefixUrl(paths.UPDATE_PATH) \o "?commit=true"

\* the timeout option the caller of call c passed in its options object
CallTimeout(c) ==
  LET a == calls[c].args
      options == IF calls[c].op = "updateExtract" THEN Param(a, 1)
                 ELSE IF calls[c].op \in {"update", "delete", "deleteByIds"}
                 THEN Param(a, 2)
                 ELSE Undefined
  IN GetProp(options, "timeout")

\* C6 (as claimed): the timeout a call hands to the transport is the timeout
\* option the caller passed when there is one, otherwise SOLR_TIMEOUT as it
\* is when the call is made, otherwise 20000.
C6_TimeoutPrecedence ==
  [][ \A c \in CallIds :
        (calls[c].pc = "idle" /\ calls'[c].pc = "dispatched") =>
          ToStr(calls'[c].fetchCalls[1].timeout)
            = ( IF Truthy(CallTimeout(c)')
                THEN ToStr(CallTimeout(c)')
                ELSE IF Truthy(env.SOLR_TIMEOUT)
                THEN ToStr(env.SOLR_TIMEOUT)
                ELSE "20000" ) ]_vars

\* C7 (as claimed): a call with a completion function returns no promise and
\* invokes the function with (null, result) exactly when the promise of the
\* same request resolves with result, and with an error message exactly when
\* that promise rejects, with the message of its error.
C7_ConventionsEquivalent ==
  \A c \in CallIds :
    (Complete(c) /\ Dispatched(c) /\ SuppliedCallback(c)) =>
      /\ calls[c].returned = "undefined"
      /\ \A r \in {calls[c].result.val} \cup
                  {calls[c].cbCalls[i][2] : i \in 1 .. Len(calls[c].cbCalls)} :
           InvokedWithResult(c, r) <=> calls[c].result = Fulfilled(r)
      /\ InvokedWithError(c) <=> calls[c].result.st = "rejected"
      /\ calls[c].result.st = "rejected" =>
           \A i \in 1 .. Len(calls[c].cbCalls) :
             calls[c].cbCalls[i] = <<MessageOf(calls[c].result.val), Undefined>>

\* C8 (as claimed): updateExtract called with no arguments, with an options
\* object, with a completion function, or with both, POSTs
\* {"add":{"doc":null,"overwrite":true}} to update/extract with wt=json among
\* the URL options (commit=true&wt=json when no options object came).
C8_UpdateExtract ==
  \A c \in CallIds :
    ( /\ calls[c].op = "updateExtract"
      /\ calls[c].args \in
           {<<>>, <<Cb>>} \cup {<<o>> : o \in {x \in OptionValues : x.t = "object"}}
             \cup {<<o, Cb>> : o \in {x \in OptionValues : x.t = "object"}} ) =>
        /\ Dispatched(c)
        /\ GetProp(calls[c].fetchCalls[1].options, "method") = Str("POST")
        /\ GetProp(calls[c].fetchCalls[1].options, "body")
             = Str("{\"add\":{\"doc\":null,\"overwrite\":true}}")
        /\ calls[c].fetchCalls[1].url
             = requestPrefixUrl(Str("update/extract")) \o "?"
                 \o ( IF calls[c].args \in {<<>>, <<Cb>>}
                      THEN "commit=true&wt=json"
                      ELSE IF GetProp(calls[c].args[1], "softCommit") = Bool(TRUE)
                      THEN "softCommit=true&wt=json"
                      ELSE "commit=false&timeout=1000&wt=json" )
        /\ calls[c].returned
             = IF SuppliedCallback(c) THEN "undefined" ELSE "promise"

\* the messages of the failures of the transport and of parsing the body
RequestErrorMessages ==
  {Str(e.v[2]) : e \in TransportErrors}
    \cup {Str(JsonParse(HtmlBody).value.v[2]),
          Str(ToStr(JsonParse(HtmlBody).value))}

\* C9 (as claimed): a response whose body is well-formed JSON is delivered
\* parsed on the success path whatever its status; what is delivered on the
\* error path is a failure of the transport or of parsing the body, nothing
\* else.
C9_BodyHandedBack ==
  \A c \in CallIds :
    /\ ( /\ calls[c].fetchP.st = "fulfilled"
         /\ \E b \in {OkBody, ErrorBody} : calls[c].fetchP.val.v[2] = b
         /\ Settled(calls[c].result) ) =>
          /\ calls[c].result
               = Fulfilled(JsonParse(calls[c].fetchP.val.v[2]).value)
          /\ Settled(calls[c].p2) =>
               calls[c].cbCalls[1]
                 = <<Null, JsonParse(calls[c].fetchP.val.v[2]).value>>
    /\ calls[c].result.st = "rejected" =>
         \/ calls[c].fetchP.st = "rejected"
         \/ ~JsonParse(calls[c].fetchP.val.v[2]).ok
    /\ \A i \in 1 .. Len(calls[c].cbCalls) :
         calls[c].cbCalls[i][1] # Null =>
           /\ calls[c].cbCalls[i][1] \in RequestErrorMessages
           /\ calls[c].result.st = "rejected"

\* the URL each operation of SpecConc asks for, from the configuration
\* handed to the constructor
ConcUrl(op) ==
  "https://u:p@solr.example:8080/search/books/"
    \o ( CASE op = "search" -> "query?q=solr"
           [] op = "terms" -> "terms?q=solr"
           [] op = "mlt" -> "mlt?q=solr"
           [] op = "spell" -> "spell?q=solr"
           [] op = "suggest" -> "suggest?q=solr"
           [] op = "ping" -> "admin/ping?"
           [] op = "commit" -> "update?commit=true"
           [] op = "softCommit" -> "update?softCommit=true"
           [] op = "update" -> "update?commit=true"
           [] op = "delete" -> "update?"
           [] op = "deleteByIds" -> "update?commit=true"
           [] op = "updateExtract" ->
                "update/extract?host=solr.example&port=8080&core=books"
                  \o "&rootPath=search&protocol=https&requestHandler=query"
                  \o "&user=u&password=p&wt=json" )

\* C10 (as claimed): no step of any call, pending together with others or
\* failing, changes the Client's configuration or its path constants, and
\* every request URL is the one assembled from the values given at
\* construction.
C10_ConfigurationFrozen ==
  [][ /\ clientOptions' = clientOptions
      /\ paths' = paths
      /\ \A c \in CallIds :
           calls'[c].pc = "dispatched" =>
             calls'[c].fetchCalls[1].url = ConcUrl(calls'[c].op) ]_vars

====
